---------------------------- MODULE Spec2Model ----------------------------
(***************************************************************************)
(* Model of the bounded LRU bucket cache TimeSeriesData                    *)
(* (src/src/core/time_series_data.rs) of HomeAccountingDB.                 *)
(*                                                                         *)
(* The cache is a vector of optional slots indexed by bucket key.  A slot  *)
(* holds a DataHolder whose payload is optional (resident / placeholder)   *)
(* and whose prev/next fields thread a doubly linked LRU list through the  *)
(* vector.  Every public call (add, get, get_range) is one action; the     *)
(* private helpers are operators over a record of the cache fields.        *)
(***************************************************************************)
EXTENDS Integers, Sequences, FiniteSets, TLC

(* ------------------------------ bounds -------------------------------- *)
\* number of slots given to the constructor (capacity); add and get are also
\* tried with the first key beyond it
Capacity == 3
\* max_active_items is chosen at construction from 0..MaxActive
MaxActive == 3
\* payload values handed to add are 1..MaxValue
MaxValue == 1
\* operations applied in a row to one FinanceChanges
MaxOps == 2
\* closing balances stay within -MaxBalance .. MaxBalance
MaxBalance == 40
\* dates are unsigned integers of Width bits; every date used is far below
\* 2^Width
Width == 16

(* ----------------------------- constants ------------------------------ *)
\* Option::None for Option<usize> fields and for an absent payload
None == 0 - 1
\* payload of a bucket loaded from an empty file list
EmptyBucket == 0
\* divisor of the index function
IndexDivisor == 100
\* the upper end build_totals gives to get_range
EndOfTime == 99999999

Values == 1 .. MaxValue

VARIABLES
    data,              \* Vec<Option<Mutex<DataHolder<T>>>>
    modified,          \* the dirty set
    head,              \* most recently used key or None
    tail,              \* least recently used key or None
    active_items,      \* the residency counter
    max_index,         \* greatest key ever stored, -1 when none
    max_active_items,  \* the residency bound
    disk,              \* what the source would load for each key
    order,             \* history: resident keys, most recently touched first
    adds,              \* history: the keys added, while the cache has only seen
                       \* successful adds of distinct keys since new()
    trace,             \* events of the last call, in program order
    call,              \* the call the caller has just made: operation, arguments,
                       \* outcome and result; Idle between calls
    operations,        \* the operations in the files of each bucket key
    ops,               \* the operations last applied or returned
    changes            \* the FinanceChanges last produced

vars == <<data, modified, head, tail, active_items, max_index,
          max_active_items, disk, order, adds, trace, call,
          operations, ops, changes>>

\* the variables of the accounting layer
ledger == <<operations, ops, changes>>

\* the indexes of the vector, and the keys tried: every slot and the first
\* key beyond the vector
Slots == DOMAIN data
Keys == Slots \cup {Cardinality(Slots)}
\* one date in each bucket, at a different offset in each
Dates == {k * IndexDivisor + k : k \in Keys}
\* the source fails at most once in a call, because the first failure ends
\* the call: save fails for the keys of f[1], get_files/load for those of f[2]
NoFault == <<{}, {}>>
SaveFaults == {<<{k}, {}>> : k \in Slots}
LoadFaults == {<<{}, {k}>> : k \in Slots}

(* ---------------------------- DataHolder ------------------------------ *)
\* a slot of the vector that is Option::None
NoHolder == [some |-> FALSE, data |-> None, prev |-> None, next |-> None]

DataHolder_empty == [some |-> TRUE, data |-> None, prev |-> None, next |-> None]

\* a holder constructor that forgets the next link
DataHolder_new_unlinked(value, next) ==
    [some |-> TRUE, data |-> value, prev |-> None, next |-> None]

DataHolder_new(value, next) ==
    [some |-> TRUE, data |-> value, prev |-> None, next |-> next]

DataHolder_set(h, value, next) ==
    [h EXCEPT !.data = value, !.prev = None, !.next = next]

(* ------------------------- index calculation -------------------------- *)
index_calculator(date) == date \div IndexDivisor

\* the index, or None for Err(InvalidInput)
validate_index(date) ==
    LET index == index_calculator(date)
    IN  IF index < 0 THEN None ELSE index

(* ------------------------- sequence helpers --------------------------- *)
RECURSIVE Without(_, _)
Without(s, x) ==
    IF s = <<>> THEN <<>>
    ELSE IF Head(s) = x THEN Without(Tail(s), x)
         ELSE <<Head(s)>> \o Without(Tail(s), x)

Range(s) == {s[i] : i \in 1 .. Len(s)}

\* the value of adds once the history is not a run of distinct adds
Mixed == <<None>>

Touch(s, x) == <<x>> \o Without(s, x)

\* what happened, to which key and payload, and the dirty bit of the key, the
\* least recently touched resident and the counter at that point
Event(ev, key, val, s) ==
    [ev |-> ev, key |-> key, val |-> val, dirty |-> key \in s.modified,
     was_dirty |-> key \in s.modified,
     oldest |-> IF s.order = <<>> THEN None ELSE s.order[Len(s.order)],
     active |-> s.active_items]

Log(s, ev, key, val) == Append(s.trace, Event(ev, key, val, s))

\* a helper stops the call: the record keeps the fields as they are at that
\* point and st names how the call ends
Stop(s, how) == [s EXCEPT !.st = how]

(* ----------------- access to a slot's DataHolder mutex ----------------- *)
\* self.data[k].as_ref().unwrap().lock().unwrap(): indexing beyond the
\* vector or unwrapping an empty slot panics; locking a std Mutex this
\* thread already holds never returns
AccessHolder(s, k, held) ==
    IF k \notin DOMAIN s.data THEN "panic"
    ELSE IF ~s.data[k].some THEN "panic"
    ELSE IF k \in held THEN "deadlock"
    ELSE "ok"

(* ------------------------------ detach -------------------------------- *)
\* detach of a cache that leaves tail alone when the last entry goes
detach_keeps_tail(s, idx, held) ==
    IF AccessHolder(s, idx, held) # "ok" THEN Stop(s, AccessHolder(s, idx, held))
    ELSE
    LET d == s.data[idx]
        inner == held \cup {idx}
        s1 == IF d.next # None
              THEN IF AccessHolder(s, d.next, inner) # "ok"
                   THEN Stop(s, AccessHolder(s, d.next, inner))
                   ELSE [s EXCEPT !.data[d.next].prev = d.prev]
              ELSE s
    IN  IF s1.st # "ok" THEN s1
        ELSE IF d.prev # None
             THEN IF AccessHolder(s1, d.prev, inner) # "ok"
                  THEN Stop(s1, AccessHolder(s1, d.prev, inner))
                  ELSE [s1 EXCEPT !.data[d.prev].next = d.next]
             ELSE [s1 EXCEPT !.head = d.next]

detach(s, idx, held) ==
    IF AccessHolder(s, idx, held) # "ok" THEN Stop(s, AccessHolder(s, idx, held))
    ELSE
    LET d == s.data[idx]
        inner == held \cup {idx}
        s1 == IF d.next # None
              THEN IF AccessHolder(s, d.next, inner) # "ok"
                   THEN Stop(s, AccessHolder(s, d.next, inner))
                   ELSE [s EXCEPT !.data[d.next].prev = d.prev]
              ELSE [s EXCEPT !.tail = d.prev]
    IN  IF s1.st # "ok" THEN s1
        ELSE IF d.prev # None
             THEN IF AccessHolder(s1, d.prev, inner) # "ok"
                  THEN Stop(s1, AccessHolder(s1, d.prev, inner))
                  ELSE [s1 EXCEPT !.data[d.prev].next = d.next]
             ELSE [s1 EXCEPT !.head = d.next]

(* --------------------------- remove_by_lru ---------------------------- *)
\* the eviction step of a cache that drops a dirty key's flag without asking
\* the source to save it
remove_by_lru_unsaved(s, held, save_fails) ==
    IF s.tail = None THEN s
    ELSE
    LET h == s.tail
        a == AccessHolder(s, h, held)
        s1 == [s EXCEPT !.modified = @ \ {h}]
    IN  IF a # "ok" THEN Stop(s1, a)
        ELSE detach([s1 EXCEPT !.data[h].data = None,
                               !.active_items = @ - 1,
                               !.order = Without(@, h),
                               !.trace = Append(@, [Event("evict", h, s.data[h].data, s1)
                                                       EXCEPT !.was_dirty = h \in s.modified])],
                    h, held)

\* the eviction step of a cache that saves a dirty key and leaves it in the
\* dirty set
remove_by_lru_still_dirty(s, held, save_fails) ==
    IF s.tail = None THEN s
    ELSE
    LET h == s.tail
        a == AccessHolder(s, h, held)
        s1 == IF h \in s.modified
              THEN IF a # "ok" THEN Stop(s, a)
                   ELSE IF s.data[h].data = None THEN Stop(s, "panic")
                   ELSE IF h \in save_fails
                        THEN Stop([s EXCEPT !.trace = Log(s, "save_failed", h, s.data[h].data)], "err")
                        ELSE [s EXCEPT !.disk[h] = s.data[h].data,
                                       !.trace = Log(s, "save", h, s.data[h].data)]
              ELSE s
    IN  IF s1.st # "ok" THEN s1
        ELSE IF a # "ok" THEN Stop(s1, a)
        ELSE detach([s1 EXCEPT !.data[h].data = None,
                               !.active_items = @ - 1,
                               !.order = Without(@, h),
                               !.trace = Append(@, [Event("evict", h, s.data[h].data, s1)
                                                       EXCEPT !.was_dirty = h \in s.modified])],
                    h, held)

\* the eviction step of a cache that empties the slot of the key it evicts
remove_by_lru_forgets(s, held, save_fails) ==
    IF s.tail = None THEN s
    ELSE
    LET h == s.tail
        a == AccessHolder(s, h, held)
        s1 == IF h \in s.modified
              THEN IF a # "ok" THEN Stop(s, a)
                   ELSE IF s.data[h].data = None THEN Stop(s, "panic")
                   ELSE IF h \in save_fails
                        THEN Stop([s EXCEPT !.trace = Log(s, "save_failed", h, s.data[h].data)], "err")
                        ELSE [s EXCEPT !.disk[h] = s.data[h].data,
                                       !.modified = @ \ {h},
                                       !.trace = Log(s, "save", h, s.data[h].data)]
              ELSE s
        s2 == detach([s1 EXCEPT !.data[h].data = None,
                                !.active_items = @ - 1,
                                !.order = Without(@, h),
                                !.trace = Append(@, [Event("evict", h, s.data[h].data, s1)
                                                        EXCEPT !.was_dirty = h \in s.modified])],
                     h, held)
    IN  IF s1.st # "ok" THEN s1
        ELSE IF a # "ok" THEN Stop(s1, a)
        ELSE [s2 EXCEPT !.data[h] = NoHolder]

\* the eviction step of a cache that clears the dirty flag before it asks the
\* source to save
remove_by_lru_clears_first(s, held, save_fails) ==
    IF s.tail = None THEN s
    ELSE
    LET h == s.tail
        a == AccessHolder(s, h, held)
        s1 == IF h \in s.modified
              THEN IF a # "ok" THEN Stop(s, a)
                   ELSE IF s.data[h].data = None THEN Stop(s, "panic")
                   ELSE IF h \in save_fails
                        THEN Stop([s EXCEPT !.modified = @ \ {h},
                                            !.trace = Log(s, "save_failed", h, s.data[h].data)], "err")
                        ELSE [s EXCEPT !.disk[h] = s.data[h].data,
                                       !.modified = @ \ {h},
                                       !.trace = Log(s, "save", h, s.data[h].data)]
              ELSE s
    IN  IF s1.st # "ok" THEN s1
        ELSE IF a # "ok" THEN Stop(s1, a)
        ELSE detach([s1 EXCEPT !.data[h].data = None,
                               !.active_items = @ - 1,
                               !.order = Without(@, h),
                               !.trace = Append(@, [Event("evict", h, s.data[h].data, s1)
                                                       EXCEPT !.was_dirty = h \in s.modified])],
                    h, held)

remove_by_lru(s, held, save_fails) ==
    IF s.tail = None THEN s
    ELSE
    LET h == s.tail
        a == AccessHolder(s, h, held)
        s1 == IF h \in s.modified
              THEN IF a # "ok" THEN Stop(s, a)
                   ELSE IF s.data[h].data = None THEN Stop(s, "panic")
                   ELSE IF h \in save_fails
                        THEN Stop([s EXCEPT !.trace = Log(s, "save_failed", h, s.data[h].data)], "err")
                        ELSE [s EXCEPT !.disk[h] = s.data[h].data,
                                       !.modified = @ \ {h},
                                       !.trace = Log(s, "save", h, s.data[h].data)]
              ELSE s
    IN  IF s1.st # "ok" THEN s1
        ELSE IF a # "ok" THEN Stop(s1, a)
        ELSE detach([s1 EXCEPT !.data[h].data = None,
                               !.active_items = @ - 1,
                               !.order = Without(@, h),
                               !.trace = Append(@, [Event("evict", h, s.data[h].data, s1)
                                                       EXCEPT !.was_dirty = h \in s.modified])],
                    h, held)

(* ------------------------------ cleanup ------------------------------- *)
\* the loop spins forever when the bound is reached and there is no tail:
\* remove_by_lru then returns Ok(()) without changing anything
RECURSIVE cleanup(_, _, _)
cleanup(s, held, save_fails) ==
    IF s.st # "ok" THEN s
    ELSE IF s.active_items >= max_active_items
         THEN IF s.tail = None THEN Stop(s, "loop")
              ELSE cleanup(remove_by_lru(s, held, save_fails), held, save_fails)
         ELSE s

(* ------------------------------ attach -------------------------------- *)
attach(s, key, held) ==
    LET s1 == IF s.head # None
              THEN IF AccessHolder(s, s.head, held) # "ok"
                   THEN Stop(s, AccessHolder(s, s.head, held))
                   ELSE [s EXCEPT !.data[s.head].prev = key]
              ELSE [s EXCEPT !.tail = key]
    IN  IF s1.st # "ok" THEN s1
        ELSE [s1 EXCEPT !.head = key,
                        !.active_items = @ + 1,
                        !.order = Touch(@, key),
                        !.trace = Append(@, Event("attach", key, None,
                                     [s1 EXCEPT !.active_items = @ + 1]))]

\* the new holder and the cache after attach
add_to_lru(s, key, v) ==
    [h |-> DataHolder_new(v, s.head), s |-> attach(s, key, {})]

(* -------------------------------- add --------------------------------- *)
\* add of a cache that makes no room before it attaches the key
add_without_cleanup(s, key, v, add_to_modified, save_fails) ==
    LET r == add_to_lru(s, key, v)
    IN  IF r.s.st # "ok" THEN r.s
        ELSE IF key \notin DOMAIN s.data THEN Stop(r.s, "panic")
        ELSE [r.s EXCEPT !.data[key] = r.h,
                         !.modified = IF add_to_modified THEN @ \cup {key} ELSE @,
                         !.max_index = IF key > @ THEN key ELSE @]

add(s, key, v, add_to_modified, save_fails) ==
    LET s1 == cleanup(s, {}, save_fails)
        r  == add_to_lru(s1, key, v)
    IN  IF s1.st # "ok" THEN s1
        ELSE IF r.s.st # "ok" THEN r.s
        ELSE IF key \notin DOMAIN s.data THEN Stop(r.s, "panic")
        ELSE [r.s EXCEPT !.data[key] = r.h,
                         !.modified = IF add_to_modified THEN @ \cup {key} ELSE @,
                         !.max_index = IF key > @ THEN key ELSE @]

(* --------------------------- move_to_front ---------------------------- *)
move_to_front(s, idx) ==
    LET s1 == detach(s, idx, {})
        head_idx == s1.head
        s2 == [s1 EXCEPT !.data[idx].next = head_idx,
                         !.data[idx].prev = None,
                         !.head = idx]
    IN  IF s1.st # "ok" THEN s1
        ELSE IF head_idx = None THEN Stop(s2, "panic")
        ELSE IF AccessHolder(s2, head_idx, {idx}) # "ok"
             THEN Stop(s2, AccessHolder(s2, head_idx, {idx}))
        ELSE [s2 EXCEPT !.data[head_idx].prev = idx,
                        !.order = Touch(@, idx),
                        !.trace = Log(s2, "hit", idx, s2.data[idx].data)]

(* ------------------------------- get_t -------------------------------- *)
\* on success the bucket handed back is appended to ret with its key
\* get_t of a cache that loads and attaches the bucket before it makes room
get_t_loads_first(s, key, save_fails, load_fails) ==
    IF s.data[key].data # None
    THEN LET s1 == move_to_front(s, key)
         IN  IF s1.st # "ok" THEN s1
             ELSE [s1 EXCEPT !.ret = Append(@, [key |-> key, val |-> s.data[key].data])]
    ELSE LET t  == s.disk[key]
             s2 == [s EXCEPT !.data[key] = DataHolder_set(@, t, s.head),
                             !.trace = Log(s, "load", key, t)]
             s3 == attach(s2, key, {key})
             s4 == cleanup(s3, {key}, save_fails)
         IN  IF key \in load_fails
             THEN Stop([s EXCEPT !.trace = Log(s, "load_failed", key, None)], "err")
             ELSE IF s3.st # "ok" THEN s3
             ELSE IF s4.st # "ok" THEN s4
             ELSE [s4 EXCEPT !.ret = Append(@, [key |-> key, val |-> t])]

\* get_t of a cache that puts a bucket it loads into the dirty set
get_t_marks_loaded(s, key, save_fails, load_fails) ==
    IF s.data[key].data # None
    THEN LET s1 == move_to_front(s, key)
         IN  IF s1.st # "ok" THEN s1
             ELSE [s1 EXCEPT !.ret = Append(@, [key |-> key, val |-> s.data[key].data])]
    ELSE LET s1 == cleanup(s, {key}, save_fails)
             t  == s1.disk[key]
             s2 == [s1 EXCEPT !.data[key] = DataHolder_set(@, t, s1.head),
                              !.modified = @ \cup {key},
                              !.trace = Append(@, Event("load", key, t,
                                           [s1 EXCEPT !.modified = @ \cup {key}]))]
             s3 == attach(s2, key, {key})
         IN  IF s1.st # "ok" THEN s1
             ELSE IF key \in load_fails
                  THEN Stop([s1 EXCEPT !.trace = Log(s1, "load_failed", key, None)], "err")
             ELSE IF s3.st # "ok" THEN s3
             ELSE [s3 EXCEPT !.ret = Append(@, [key |-> key, val |-> t])]

get_t(s, key, save_fails, load_fails) ==
    IF s.data[key].data # None
    THEN LET s1 == move_to_front(s, key)
         IN  IF s1.st # "ok" THEN s1
             ELSE [s1 EXCEPT !.ret = Append(@, [key |-> key, val |-> s.data[key].data])]
    ELSE LET s1 == cleanup(s, {key}, save_fails)
             t  == s1.disk[key]
             s2 == [s1 EXCEPT !.data[key] = DataHolder_set(@, t, s1.head),
                              !.trace = Log(s1, "load", key, t)]
             s3 == attach(s2, key, {key})
         IN  IF s1.st # "ok" THEN s1
             ELSE IF key \in load_fails
                  THEN Stop([s1 EXCEPT !.trace = Log(s1, "load_failed", key, None)], "err")
             ELSE IF s3.st # "ok" THEN s3
             ELSE [s3 EXCEPT !.ret = Append(@, [key |-> key, val |-> t])]

(* -------------------------------- get --------------------------------- *)
RECURSIVE get_scan(_, _, _, _)
get_scan(s, i, save_fails, load_fails) ==
    IF i < 0 THEN s
    ELSE IF i \notin DOMAIN s.data THEN Stop(s, "panic")
    ELSE IF s.data[i].some THEN get_t(s, i, save_fails, load_fails)
    ELSE get_scan(s, i - 1, save_fails, load_fails)

get(s, date, save_fails, load_fails) ==
    LET idx1 == validate_index(date)
    IN  IF idx1 = None THEN Stop(s, "err")
        ELSE get_scan(s, idx1, save_fails, load_fails)

(* ----------------------------- get_range ------------------------------ *)
RECURSIVE range_scan(_, _, _, _, _)
range_scan(s, i, idx2, save_fails, load_fails) ==
    IF s.st # "ok" \/ i > idx2 THEN s
    ELSE IF i \notin DOMAIN s.data THEN Stop(s, "panic")
    ELSE range_scan(IF s.data[i].some THEN get_t(s, i, save_fails, load_fails) ELSE s,
                    i + 1, idx2, save_fails, load_fails)

get_range(s, from, to, save_fails, load_fails) ==
    IF s.max_index = 0 - 1 THEN s
    ELSE LET i1 == index_calculator(from)
             idx1 == IF i1 < 0 THEN 0 ELSE i1
             v2 == validate_index(to)
             idx2 == IF v2 > s.max_index THEN s.max_index ELSE v2
         IN  IF v2 = None THEN Stop(s, "err")
             ELSE range_scan(s, idx1, idx2, save_fails, load_fails)

get_active_items == active_items

(* ---------------------- accounts and subcategories --------------------- *)
\* Accounts.map after Accounts::load: the cash account of each account id,
\* None for an account that is itself a cash account
Accounts == (1 :> None) @@ (2 :> 1) @@ (3 :> None)

\* Accounts::get_cash_account
get_cash_account(account) ==
    IF account \in DOMAIN Accounts
    THEN [st |-> "ok", v |-> Accounts[account]]
    ELSE [st |-> "err", v |-> None]

\* Subcategories.map: operation code and code of each subcategory id
Subcategories ==
    (1 :> [operation_code |-> "Incm", code |-> "None"]) @@
    (2 :> [operation_code |-> "Expn", code |-> "None"]) @@
    (3 :> [operation_code |-> "Spcl", code |-> "Incc"]) @@
    (4 :> [operation_code |-> "Spcl", code |-> "Expc"]) @@
    (5 :> [operation_code |-> "Spcl", code |-> "Exch"]) @@
    (6 :> [operation_code |-> "Spcl", code |-> "Trfr"]) @@
    (7 :> [operation_code |-> "Spcl", code |-> "Fuel"])

(* --------------------------- FinanceChanges --------------------------- *)
FinanceChange_new(start_balance) ==
    [start_balance |-> start_balance, income |-> 0, expenditure |-> 0]

get_end_balance(c) == c.start_balance + c.income - c.expenditure

\* FinanceChanges is the map changes: account -> FinanceChange
FinanceChanges_new(totals) ==
    [account \in DOMAIN totals |-> FinanceChange_new(totals[account])]

FinanceChanges_empty == <<>>

FinanceChanges_build_totals(ch) ==
    [account \in DOMAIN ch |-> get_end_balance(ch[account])]

\* an entry lookup that inserts a zeroed entry over an existing one
get_account_changes_fresh(ch, account) ==
    (account :> FinanceChange_new(0)) @@ ch

\* entry(account).or_insert(FinanceChange::new(0)): the map with the entry
get_account_changes(ch, account) ==
    IF account \in DOMAIN ch THEN ch
    ELSE ch @@ (account :> FinanceChange_new(0))

\* get_account_changes(account).handle_income(summa)
handle_income(ch, account, summa) ==
    [get_account_changes(ch, account) EXCEPT ![account].income = @ + summa]

\* an expenditure that is assigned, not accumulated
handle_expenditure_assigns(ch, account, summa) ==
    [get_account_changes(ch, account) EXCEPT ![account].expenditure = summa]

\* get_account_changes(account).handle_expenditure(summa)
handle_expenditure(ch, account, summa) ==
    [get_account_changes(ch, account) EXCEPT ![account].expenditure = @ + summa]

(* -------------------------- FinanceOperation -------------------------- *)
\* an operation is [date, account, subcategory, amount, summa, parameters];
\* a parameter is [code, value]; the result of applying one is the outcome
\* and the map as the call leaves it
Applied(st, ch) == [st |-> st, changes |-> ch]

\* an INCC handler that forgets the cash account
handle_incc_own_side(op, ch) ==
    LET ch1 == handle_income(ch, op.account, op.summa)
        cash_account == get_cash_account(op.account)
    IN  IF cash_account.st # "ok" THEN Applied("err", ch1)
        ELSE Applied("ok", ch1)

handle_incc(op, ch) ==
    LET ch1 == handle_income(ch, op.account, op.summa)
        cash_account == get_cash_account(op.account)
    IN  IF cash_account.st # "ok" THEN Applied("err", ch1)
        ELSE IF cash_account.v # None
             THEN Applied("ok", handle_expenditure(ch1, cash_account.v, op.summa))
             ELSE Applied("ok", ch1)

\* an EXPC handler that forgets the cash account
handle_expc_own_side(op, ch) ==
    LET ch1 == handle_expenditure(ch, op.account, op.summa)
        cash_account == get_cash_account(op.account)
    IN  IF cash_account.st # "ok" THEN Applied("err", ch1)
        ELSE Applied("ok", ch1)

handle_expc(op, ch) ==
    LET ch1 == handle_expenditure(ch, op.account, op.summa)
        cash_account == get_cash_account(op.account)
    IN  IF cash_account.st # "ok" THEN Applied("err", ch1)
        ELSE IF cash_account.v # None
             THEN Applied("ok", handle_income(ch1, cash_account.v, op.summa))
             ELSE Applied("ok", ch1)

handle_trfr_with_summa(op, ch, summa) ==
    LET ch1 == handle_expenditure(ch, op.account, summa)
    IN  IF Len(op.parameters) = 1 /\ op.parameters[1].code = "Seca"
        THEN Applied("ok", handle_income(ch1, op.parameters[1].value, op.summa))
        ELSE Applied("ok", ch1)

handle_exch(op, ch) ==
    IF op.amount # None
    THEN handle_trfr_with_summa(op, ch, op.amount \div 10)
    ELSE Applied("ok", ch)

handle_trfr(op, ch) == handle_trfr_with_summa(op, ch, op.summa)

\* an apply that takes a special code without handler for a plain expenditure
apply_lenient(op, ch) ==
    IF op.subcategory \notin DOMAIN Subcategories THEN Applied("err", ch)
    ELSE
    LET subcategory == Subcategories[op.subcategory]
    IN  CASE subcategory.operation_code = "Incm"
               -> Applied("ok", handle_income(ch, op.account, op.summa))
          [] subcategory.operation_code = "Expn"
               -> Applied("ok", handle_expenditure(ch, op.account, op.summa))
          [] OTHER ->
               CASE subcategory.code = "Incc" -> handle_incc(op, ch)
                 [] subcategory.code = "Expc" -> handle_expc(op, ch)
                 [] subcategory.code = "Exch" -> handle_exch(op, ch)
                 [] subcategory.code = "Trfr" -> handle_trfr(op, ch)
                 [] OTHER -> Applied("ok", handle_expenditure(ch, op.account, op.summa))

\* every error of apply is an ErrorKind::InvalidData
apply(op, ch) ==
    IF op.subcategory \notin DOMAIN Subcategories THEN Applied("err", ch)
    ELSE
    LET subcategory == Subcategories[op.subcategory]
    IN  CASE subcategory.operation_code = "Incm"
               -> Applied("ok", handle_income(ch, op.account, op.summa))
          [] subcategory.operation_code = "Expn"
               -> Applied("ok", handle_expenditure(ch, op.account, op.summa))
          [] OTHER ->
               CASE subcategory.code = "Incc" -> handle_incc(op, ch)
                 [] subcategory.code = "Expc" -> handle_expc(op, ch)
                 [] subcategory.code = "Exch" -> handle_exch(op, ch)
                 [] subcategory.code = "Trfr" -> handle_trfr(op, ch)
                 [] OTHER -> Applied("err", ch)

within(op, from, to) == op.date >= from /\ op.date <= to

(* ---------------------------- FinanceRecord --------------------------- *)
\* a record is [operations, totals]
FinanceRecord_new(operations_) == [operations |-> operations_, totals |-> <<>>]

create_changes(r) == FinanceChanges_new(r.totals)

\* apply in turn the operations of the list that are within from..to; the
\* first error ends the loop
RECURSIVE apply_within(_, _, _, _)
apply_within(list, a, from, to) ==
    IF list = <<>> \/ a.st # "ok" THEN a
    ELSE apply_within(Tail(list),
                      IF within(Head(list), from, to)
                      THEN apply(Head(list), a.changes) ELSE a,
                      from, to)

update_changes(r, ch, from, to) == apply_within(r.operations, Applied("ok", ch), from, to)

RECURSIVE apply_all(_, _)
apply_all(list, a) ==
    IF list = <<>> \/ a.st # "ok" THEN a
    ELSE apply_all(Tail(list), apply(Head(list), a.changes))

build_changes(r) == apply_all(r.operations, Applied("ok", create_changes(r)))

get_ops(r, date) == SelectSeq(r.operations, LAMBDA op : op.date = date)

(* ------------------------- the state machine -------------------------- *)
\* the fields of the cache at the start of a call
Cache ==
    [data |-> data, modified |-> modified, head |-> head, tail |-> tail,
     active_items |-> active_items, max_index |-> max_index, disk |-> disk,
     order |-> order, trace |-> <<>>, ret |-> <<>>, st |-> "ok"]

\* a call that panicked or never returns ends the program
Alive == call.outcome \in {"ok", "err"}

\* the caller holds no result and can make the next call
Idle == [op |-> "idle", a |-> None, b |-> None, m |-> FALSE,
         outcome |-> "ok", ret |-> <<>>]

\* save can only be asked for a dirty key, get_files/load for a known key
Faults == {NoFault} \cup {f \in SaveFaults : f[1] \subseteq modified}
                    \cup {f \in LoadFaults : \A k \in f[2] : data[k].some}

Stored(s, op, a, b, m) ==
    /\ data' = s.data
    /\ modified' = s.modified
    /\ head' = s.head
    /\ tail' = s.tail
    /\ active_items' = s.active_items
    /\ max_index' = s.max_index
    /\ disk' = s.disk
    /\ order' = s.order
    /\ trace' = s.trace
    /\ adds' = IF op = "add" /\ s.st = "ok" /\ adds # Mixed /\ a \notin Range(adds)
               THEN Append(adds, a) ELSE Mixed
    /\ call' = [op |-> op, a |-> a, b |-> b, m |-> m, outcome |-> s.st, ret |-> s.ret]
    /\ UNCHANGED max_active_items

\* a call on the cache alone
Commit(s, op, a, b, m) == Stored(s, op, a, b, m) /\ UNCHANGED ledger

MaxOf(S) == CHOOSE x \in S : \A y \in S : y <= x

\* TimeSeriesData::new (no key on disk) or TimeSeriesData::init (a
\* placeholder for every key found on disk, which must fit the capacity)
Constructed(capacity, K, m) ==
    /\ data = [k \in 0 .. (capacity - 1) |->
                  IF k \in K THEN DataHolder_empty ELSE NoHolder]
    /\ modified = {}
    /\ head = None
    /\ tail = None
    /\ active_items = 0
    /\ max_index = IF K = {} THEN 0 - 1 ELSE MaxOf(K)
    /\ max_active_items = m
    /\ disk = [k \in 0 .. (capacity - 1) |-> EmptyBucket]
    /\ order = <<>>
    /\ adds = IF K = {} THEN <<>> ELSE Mixed
    /\ trace = <<>>
    /\ call = Idle

\* no accounting layer over the cache
NoLedger == operations = <<>> /\ ops = <<>> /\ changes = <<>>

Init ==
    \E K \in SUBSET (0 .. (Capacity - 1)), m \in 0 .. MaxActive :
        Constructed(Capacity, K, m) /\ NoLedger

Add ==
    \E key \in Keys, v \in Values, m \in BOOLEAN, f \in Faults :
        /\ call = Idle /\ f[2] = {}
        /\ Commit(add(Cache, key, v, m, f[1]), "add", key, v, m)

\* add with a source that does not fail
AddSaved ==
    \E key \in Keys, v \in Values, m \in BOOLEAN :
        /\ call = Idle
        /\ Commit(add(Cache, key, v, m, {}), "add", key, v, m)

Get ==
    \E date \in Dates, f \in Faults :
        /\ call = Idle
        /\ Commit(get(Cache, date, f[1], f[2]), "get", date, None, FALSE)

GetRange ==
    \E from \in Dates, to \in Dates, f \in Faults :
        /\ call = Idle
        /\ Commit(get_range(Cache, from, to, f[1], f[2]), "get_range", from, to, FALSE)

\* the caller is done with the result of a call that returned
Release ==
    /\ call # Idle /\ Alive
    /\ call' = Idle
    /\ trace' = <<>>
    /\ UNCHANGED <<data, modified, head, tail, active_items, max_index,
                   max_active_items, disk, order, adds>>
    /\ UNCHANGED ledger

Next == Add \/ Get \/ GetRange \/ Release

Spec == Init /\ [][Next]_vars

\* a cache of one more slot made by new() with the largest bound, filled by
\* add alone from a source that does not fail
InitWide == Constructed(Capacity + 1, {}, MaxActive) /\ NoLedger

NextAdds == AddSaved \/ Release

SpecAdds == InitWide /\ [][NextAdds]_vars

(* ------------------- applying operations to changes -------------------- *)
Parameter(code, value) == [code |-> code, value |-> value]

Operation(date, account, subcategory, amount, summa, parameters) ==
    [date |-> date, account |-> account, subcategory |-> subcategory,
     amount |-> amount, summa |-> summa, parameters |-> parameters]

\* account ids used: those of the map and one that is not in it
AccountIds == DOMAIN Accounts \cup {9}

\* parameter lists: none, one SECA, another parameter alone, a SECA with
\* another parameter on either side, two SECA
ParameterLists ==
    {<<>>,
     <<Parameter("Seca", 3)>>,
     <<Parameter("Seca", 2)>>,
     <<Parameter("Amou", 7)>>,
     <<Parameter("Seca", 3), Parameter("Amou", 7)>>,
     <<Parameter("Amou", 7), Parameter("Seca", 3)>>,
     <<Parameter("Seca", 3), Parameter("Seca", 2)>>}

\* the operations tried: INCM, EXPN, an SPCL code without handler and an
\* unknown subcategory; INCC and EXPC also on an unknown account; EXCH with
\* and without amount and TRFR, with every parameter list
ApplyOperations ==
    {Operation(1, a, sc, None, s, <<>>) : a \in {1, 2}, sc \in {1, 2, 7, 9}, s \in {1, 2}}
    \cup {Operation(1, a, sc, None, s, <<>>) : a \in {1, 2, 9}, sc \in {3, 4}, s \in {1, 2}}
    \cup {Operation(1, a, 5, am, s, pl) :
              a \in {1, 2}, am \in {None, 25}, s \in {1, 2}, pl \in ParameterLists}
    \cup {Operation(1, a, 6, None, s, pl) : a \in {1, 2}, s \in {1, 2}, pl \in ParameterLists}

\* the maps the operations are applied to: empty, one fresh entry, entries
\* that already moved
StartChanges ==
    {FinanceChanges_empty,
     FinanceChanges_new((1 :> 5)),
     [FinanceChanges_new((1 :> 5) @@ (3 :> 0)) EXCEPT ![1].income = 1, ![1].expenditure = 2]}

InitApply ==
    /\ Constructed(0, {}, 0)
    /\ operations = <<>>
    /\ ops = <<>>
    /\ changes \in StartChanges

\* FinanceOperation::apply on the current map; a caller stops at the first
\* error
Apply ==
    \E op \in ApplyOperations :
        /\ Len(ops) < MaxOps /\ call.outcome = "ok"
        /\ changes' = apply(op, changes).changes
        /\ ops' = Append(ops, op)
        /\ call' = [Idle EXCEPT !.op = "apply", !.outcome = apply(op, changes).st]
        /\ UNCHANGED <<data, modified, head, tail, active_items, max_index,
                       max_active_items, disk, order, adds, trace, operations>>

NextApply == Apply

SpecApply == InitApply /\ [][NextApply]_vars

(* --------------------- the database over the cache --------------------- *)
\* The payload of a bucket in the cache is a FinanceRecord.  Its operations
\* are those of the files of its key and never change; its totals are kept
\* in the payload as one number, a digit per account: 0 for no entry,
\* balance + MaxBalance + 1 otherwise.  EmptyBucket is the empty map.
TotalsBase == 2 * MaxBalance + 2
TotalsAccounts == 1 .. Cardinality(DOMAIN Accounts)

RECURSIVE PayloadFrom(_, _)
PayloadFrom(totals, account) ==
    IF account \notin TotalsAccounts THEN 0
    ELSE (IF account \in DOMAIN totals THEN totals[account] + MaxBalance + 1 ELSE 0)
         + TotalsBase * PayloadFrom(totals, account + 1)

Payload(totals) == PayloadFrom(totals, 1)

TotalsDigit(payload, account) == (payload \div (TotalsBase ^ (account - 1))) % TotalsBase

Totals(payload) ==
    [account \in {a \in TotalsAccounts : TotalsDigit(payload, a) # 0}
        |-> TotalsDigit(payload, account) - MaxBalance - 1]

\* the operations in the files of bucket key: every file gives its date to
\* the operations read from it
FileOperations(key) ==
    LET day == key * IndexDivisor
    IN  CASE key % 3 = 0 ->
               <<Operation(day, 1, 1, None, 5, <<>>),
                 Operation(day + 1, 1, 2, None, 2, <<>>),
                 Operation(day + 1, 2, 1, None, 1, <<>>)>>
          [] key % 3 = 1 ->
               <<Operation(day + 1, 2, 1, None, 3, <<>>),
                 Operation(day + 2, 1, 6, None, 1, <<Parameter("Seca", 2)>>)>>
          [] OTHER ->
               <<Operation(day + 1, 1, 2, None, 1, <<>>)>>

\* the dates asked for: three in every bucket of the vector
DbDates == {k * IndexDivisor + d : k \in Slots, d \in 0 .. 2}

\* the FinanceRecord behind a payload of the cache
Bucket(key, payload) == [operations |-> operations[key], totals |-> Totals(payload)]

\* HomeAccountingDB::load starts from TimeSeriesData::new with the file map
\* of the key folders F
InitDb ==
    \E F \in SUBSET (0 .. (Capacity - 1)), m \in 0 .. MaxActive :
        /\ Constructed(Capacity, {}, m)
        /\ operations = [k \in F |-> FileOperations(k)]
        /\ ops = <<>>
        /\ changes = <<>>

\* the keys of the file map
Files == DOMAIN operations

\* load has not failed and has made no call but load_files so far
Loading == adds # Mixed /\ call.outcome = "ok" /\ call.op \in {"idle", "add"}

\* one turn of the loop of TimeSeriesData::load over the file map, which
\* yields its keys in any order: load_files(key, files)
LoadFiles ==
    \E key \in Files \ Range(adds) :
        /\ Loading
        /\ Commit(add(Cache, key, EmptyBucket, FALSE, {}), "add", key, EmptyBucket, FALSE)

\* the loop of build_totals over the pairs get_range returned: written is
\* the totals each bucket handed back ends with, some/changes the Option
RECURSIVE totals_loop(_, _)
totals_loop(list, acc) ==
    IF list = <<>> \/ acc.st # "ok" THEN acc
    ELSE LET e == Head(list)
             vv == [operations |-> operations[e.key],
                    totals |-> IF acc.some
                               THEN FinanceChanges_build_totals(acc.changes)
                               ELSE Totals(e.val)]
             b == build_changes(vv)
         IN  totals_loop(Tail(list),
                         [st |-> b.st,
                          some |-> acc.some \/ b.st = "ok",
                          changes |-> IF b.st = "ok" THEN b.changes ELSE acc.changes,
                          written |-> (e.key :> vv.totals) @@ acc.written])

\* a sweep that marks dirty the resident buckets whose totals it writes
totals_written_dirty(s, acc) ==
    [s |-> [s EXCEPT
              !.st = acc.st,
              !.modified = @ \cup {k \in DOMAIN acc.written : s.data[k].data # None},
              !.data = [k \in DOMAIN s.data |->
                          IF k \in DOMAIN acc.written /\ s.data[k].data # None
                          THEN [s.data[k] EXCEPT !.data = Payload(acc.written[k])]
                          ELSE s.data[k]]],
     some |-> acc.some, changes |-> acc.changes]

\* the cache once the loop is over: a bucket that get_range handed back and
\* evicted before it returned was written through the result alone; the
\* cache keeps what was written to the buckets still resident
totals_written(s, acc) ==
    [s |-> [s EXCEPT
              !.st = acc.st,
              !.data = [k \in DOMAIN s.data |->
                          IF k \in DOMAIN acc.written /\ s.data[k].data # None
                          THEN [s.data[k] EXCEPT !.data = Payload(acc.written[k])]
                          ELSE s.data[k]]],
     some |-> acc.some, changes |-> acc.changes]

totals_over(s) ==
    IF s.st # "ok" THEN [s |-> s, some |-> FALSE, changes |-> <<>>]
    ELSE totals_written(s, totals_loop(s.ret, [st |-> "ok", some |-> FALSE,
                                               changes |-> <<>>, written |-> <<>>]))

\* HomeAccountingDB::build_totals(from)
build_totals(s, from, save_fails, load_fails) ==
    totals_over(get_range(s, index_calculator(from), EndOfTime, save_fails, load_fails))

\* the state a build_totals leaves
Built(r) ==
    /\ Stored(r.s, "build_totals", 0, None, FALSE)
    /\ changes' = IF r.some THEN r.changes ELSE changes
    /\ UNCHANGED <<operations, ops>>

\* the state a build_totals(from) of the loaded database leaves
Rebuilt(r, from) ==
    /\ Stored(r.s, "build_totals_from", from, None, FALSE)
    /\ changes' = IF r.some THEN r.changes ELSE changes
    /\ UNCHANGED <<operations, ops>>

\* the second half of HomeAccountingDB::load, once every key is loaded
BuildTotals ==
    \E f \in Faults :
        /\ Loading /\ Range(adds) = Files
        /\ Built(build_totals(Cache, 0, f[1], f[2]))

\* date - 1 on an unsigned date
Wrapped(n) == n % (2 ^ Width)

OpsResult(st, o, ch) == [st |-> st, ops |-> o, changes |-> ch]

\* the rest of build_ops_and_changes once get handed back the bucket r;
\* date - 1 at date 0 overflows: a build with overflow checks panics there,
\* one without them goes on with the wrapped value
ops_and_changes_of(r, date, wraps) ==
    LET first == update_changes(r, create_changes(r), 0, Wrapped(date - 1))
        totals == FinanceChanges_build_totals(first.changes)
        second == update_changes(r, FinanceChanges_new(totals), date, date)
    IN  IF date = 0 /\ ~wraps THEN OpsResult("panic", <<>>, FinanceChanges_empty)
        ELSE IF first.st # "ok" THEN OpsResult(first.st, <<>>, FinanceChanges_empty)
        ELSE IF second.st # "ok" THEN OpsResult(second.st, <<>>, FinanceChanges_empty)
        ELSE OpsResult("ok", get_ops(r, date), second.changes)

ops_and_changes_on(s, date, wraps) ==
    IF s.st # "ok" THEN OpsResult(s.st, <<>>, FinanceChanges_empty)
    ELSE IF s.ret = <<>> THEN OpsResult("ok", <<>>, FinanceChanges_empty)
    ELSE ops_and_changes_of(Bucket(s.ret[1].key, s.ret[1].val), date, wraps)

\* the state a build_ops_and_changes leaves: s is the cache after get, r
\* the result
Answered(s, r, date) ==
    /\ Stored(Stop(s, r.st), "ops_and_changes", date, None, FALSE)
    /\ ops' = IF r.st = "ok" THEN r.ops ELSE ops
    /\ changes' = IF r.st = "ok" THEN r.changes ELSE changes
    /\ UNCHANGED operations

\* HomeAccountingDB::build_ops_and_changes(date)
build_ops_and_changes(s, date, wraps) == Answered(s, ops_and_changes_on(s, date, wraps), date)

\* a call of the database that HomeAccountingDB::load handed out
OpsAndChanges ==
    \E date \in DbDates, wraps \in BOOLEAN, f \in Faults :
        /\ call = Idle /\ adds = Mixed
        /\ (date # 0 => wraps)
        /\ build_ops_and_changes(get(Cache, index_calculator(date), f[1], f[2]), date, wraps)

\* build_totals(from) on the database that HomeAccountingDB::load handed out
BuildTotalsFrom ==
    \E from \in DbDates, f \in Faults :
        /\ call = Idle /\ adds = Mixed
        /\ Rebuilt(build_totals(Cache, from, f[1], f[2]), from)

\* the caller is done with a result; there is no database to call when
\* build_totals did not return Ok
DbRelease ==
    /\ call.op \in {"build_totals", "build_totals_from", "ops_and_changes"}
    /\ call.op = "build_totals" => call.outcome = "ok"
    /\ Release

NextDb == LoadFiles \/ BuildTotals \/ BuildTotalsFrom \/ OpsAndChanges \/ DbRelease

SpecDb == InitDb /\ [][NextDb]_vars


(* ------------------------ observations of a state ---------------------- *)
Known == {k \in Slots : data[k].some}
Resident == {k \in Known : data[k].data # None}
Placeholders == Known \ Resident

\* the keys met from k along next (or prev) links, at most n of them
RECURSIVE Walk(_, _, _)
Walk(k, forward, n) ==
    IF k = None \/ n = 0 \/ k \notin Slots THEN <<>>
    ELSE <<k>> \o Walk(IF forward THEN data[k].next ELSE data[k].prev, forward, n - 1)

FromHead == Walk(head, TRUE, Cardinality(Slots) + 1)
FromTail == Walk(tail, FALSE, Cardinality(Slots) + 1)

NoRepeat(s) == \A i, j \in 1 .. Len(s) : s[i] = s[j] => i = j

\* a traversal that ends and visits exactly the resident keys, once each
VisitsResidents(s) == Len(s) <= Cardinality(Slots) /\ NoRepeat(s) /\ Range(s) = Resident

(* ------------------------------ claims --------------------------------- *)

\* C1: in every state reached by add, get and get_range calls the number of
\* slots that hold a payload is at most max_active_items.
C1_ResidentBound == Cardinality(Resident) <= max_active_items

\* C2: following next from head, and prev from tail, visits every resident
\* key exactly once and ends; no placeholder is visited.
C2_LinkIntegrity ==
    Alive => VisitsResidents(FromHead) /\ VisitsResidents(FromTail)

\* C3: after any sequence of add, get and get_range calls get_active_items()
\* is at most max_active_items.
C3_ActiveCountBound == Alive => get_active_items <= max_active_items

C3_Witness ==
    /\ call.op = "get" /\ call.outcome = "ok"
    /\ \E i \in 1 .. Len(trace) : trace[i].ev = "evict"
    /\ max_active_items = 2
    /\ get_active_items = max_active_items


\* C4: add of a key that is already resident replaces its payload and
\* re-links it at the head: afterwards the list from head is the key followed
\* by the other residents in their previous order, and the counter is
\* unchanged.
C4_ReAddRelinks ==
    [][(/\ call'.op = "add" /\ call'.outcome = "ok"
        /\ call'.a \in Resident
        /\ active_items < max_active_items)
       => (/\ data'[call'.a].data = call'.b
           /\ head' = call'.a
           /\ FromHead' = <<call'.a>> \o Without(FromHead, call'.a)
           /\ active_items' = active_items)]_vars

\* the greatest known key that is at most idx, or None
GreatestKnown(idx) ==
    IF \E k \in Known : k <= idx
    THEN MaxOf({k \in Known : k <= idx})
    ELSE None

\* the bucket the cache holds or would load for a known key
BucketAt(k) == IF data[k].data # None THEN data[k].data ELSE disk[k]

\* C5: a get that finds a known key k and whose source does not fail
\* succeeds and leaves k at the head, whether k was a placeholder or
\* resident, the only resident, the head or the tail.
C5_HeadAfterGet ==
    [][(/\ call'.op = "get" /\ call'.outcome # "err"
        /\ max_active_items >= 1
        /\ index_calculator(call'.a) \in Slots
        /\ GreatestKnown(index_calculator(call'.a)) # None)
       => (/\ call'.outcome = "ok"
           /\ head' = GreatestKnown(index_calculator(call'.a)))]_vars

\* the last n elements of a sequence
LastN(s, n) == SubSeq(s, Len(s) - n + 1, Len(s))

\* C6: every eviction drops the resident entry touched least recently, and
\* after adding more than max_active_items distinct keys to an empty cache
\* the residents are the last max_active_items keys added, head the last key
\* added, tail the oldest survivor and the earlier keys placeholders.
C6_EvictsLeastRecent ==
    /\ \A i \in 1 .. Len(trace) :
          trace[i].ev = "evict" => trace[i].key = trace[i].oldest
    /\ (Alive /\ adds # Mixed /\ Len(adds) > max_active_items)
       => (/\ Resident = Range(LastN(adds, max_active_items))
           /\ head = adds[Len(adds)]
           /\ tail = adds[Len(adds) - max_active_items + 1]
           /\ Placeholders = Range(adds) \ Resident)

\* C7: a dirty key that is evicted is saved exactly once, with its payload,
\* before the payload is dropped, and has left the dirty set by then; a key
\* that is not dirty is evicted without a save.
C7_WriteBack ==
    \A i \in 1 .. Len(trace) :
       /\ trace[i].ev = "save"
          => (/\ trace[i].dirty /\ trace[i].val # None
              /\ i < Len(trace)
              /\ trace[i + 1].ev = "evict"
              /\ trace[i + 1].key = trace[i].key
              /\ trace[i + 1].val = trace[i].val
              /\ (i > 1 => ~(trace[i - 1].ev = "save" /\ trace[i - 1].key = trace[i].key)))
       /\ trace[i].ev = "evict"
          => (/\ ~trace[i].dirty
              /\ trace[i].was_dirty
                 <=> (i > 1 /\ trace[i - 1].ev = "save" /\ trace[i - 1].key = trace[i].key))

C7_Witness ==
    /\ call.outcome = "ok"
    /\ \E i \in 1 .. Len(trace) : trace[i].ev = "save"
    /\ \E i \in 1 .. Len(trace) :
          trace[i].ev = "evict" /\ (i = 1 \/ trace[i - 1].ev # "save")

\* C8: every key of the dirty set is resident.
C8_DirtyResident == modified \subseteq Resident

C8_Witness ==
    /\ Alive /\ modified # {}
    /\ \E i \in 1 .. Len(trace) : trace[i].ev = "evict" /\ trace[i].key \notin modified
    /\ Resident \ modified # {}

\* C9: for every date with a non-negative index get returns the bucket at
\* the greatest known key at most the index, and None when there is none,
\* also when the index is beyond every known key or beyond the capacity.
C9_GetSelects ==
    [][(/\ call'.op = "get" /\ call'.outcome # "err"
        /\ max_active_items >= 1
        /\ index_calculator(call'.a) >= 0)
       => (/\ call'.outcome = "ok"
           /\ LET k == GreatestKnown(index_calculator(call'.a))
              IN  call'.ret = IF k = None THEN <<>>
                              ELSE <<[key |-> k, val |-> BucketAt(k)]>>)]_vars

\* the elements of a set of keys in increasing order
RECURSIVE Ascending(_)
Ascending(S) ==
    IF S = {} THEN <<>>
    ELSE LET m == CHOOSE x \in S : \A y \in S : x <= y
         IN  <<m>> \o Ascending(S \ {m})

\* C10: get_range returns every known key between the two indexes exactly
\* once, in increasing order, and no other key, also when there are more
\* such keys than max_active_items.
C10_RangeComplete ==
    [][(call'.op = "get_range" /\ call'.outcome # "err" /\ max_active_items >= 1)
       => (/\ call'.outcome = "ok"
           /\ [i \in 1 .. Len(call'.ret) |-> call'.ret[i].key]
                = Ascending({k \in Known : /\ index_calculator(call'.a) <= k
                                           /\ k <= index_calculator(call'.b)}))]_vars


\* the last event of the call just made
LastEvent == IF trace = <<>> THEN "none" ELSE trace[Len(trace)].ev

\* C11: when the source fails to save the dirty tail that add, or the lazy
\* load of get, is evicting, the call returns the error and the cache is as
\* before the call: payloads, links, head, tail, counter and dirty set are
\* unchanged, and the tail is still resident and dirty.
C11_FailedSaveNoEffect ==
    [][(/\ call'.op \in {"add", "get"}
        /\ LastEvent' = "save_failed")
       => (/\ call'.outcome = "err"
           /\ UNCHANGED <<data, modified, head, tail, active_items, max_index>>
           /\ tail' \in Resident'
           /\ tail' \in modified')]_vars

C11_Witness ==
    /\ call.op = "get" /\ call.outcome = "err"
    /\ LastEvent = "save_failed"
    /\ trace[Len(trace)].key = tail
    /\ Cardinality(Resident) >= 2

\* C12: when get_files or load fails during the lazy load of a placeholder k
\* in get or get_range, the call returns the error and k is still a
\* placeholder: it has no payload, neither walk of the list meets it, the
\* counter has not counted it and it is not dirty.
C12_FailedLoadKeepsPlaceholder ==
    [][(/\ call'.op \in {"get", "get_range"}
        /\ LastEvent' = "load_failed")
       => LET k == trace'[Len(trace')].key
          IN  /\ call'.outcome = "err"
              /\ k \in Placeholders'
              /\ k \notin modified'
              /\ k \notin Range(FromHead') \cup Range(FromTail')
              /\ active_items' = trace'[Len(trace')].active]_vars


\* C13: a bucket made resident by a lazy load in get or get_range is not in
\* the dirty set at the load nor when the call returns, also when the key was
\* dirty before its last eviction.
C13_LoadedIsClean ==
    \A i \in 1 .. Len(trace) :
        trace[i].ev = "load" => ~trace[i].dirty /\ trace[i].key \notin modified

\* a get that loads back a bucket that was saved when it was evicted dirty
C13_Witness ==
    /\ call.op = "get" /\ call.outcome = "ok"
    /\ \E i \in 1 .. Len(trace) :
          /\ trace[i].ev = "load" /\ trace[i].val # EmptyBucket
          /\ trace[i].key \in Resident


\* the get of the step looks up a known placeholder while the counter is at
\* the bound, and its source does not fail
GetOfPlaceholderAtBound ==
    /\ call'.op = "get" /\ call'.outcome # "err"
    /\ max_active_items >= 1
    /\ index_calculator(call'.a) \in Slots
    /\ GreatestKnown(index_calculator(call'.a)) \in Placeholders
    /\ active_items = max_active_items

\* the evictions of the call just made, in order
Evicted == SelectSeq(trace, LAMBDA e : e.ev = "evict")

SoundList ==
    /\ VisitsResidents(FromHead) /\ VisitsResidents(FromTail)
    /\ active_items = Cardinality(Resident)

C15_GetResidentMovesOnlyKey ==
    [][(/\ call'.op = "get"
        /\ index_calculator(call'.a) \in Slots
        /\ GreatestKnown(index_calculator(call'.a)) \in Resident)
       => LET k == GreatestKnown(index_calculator(call'.a))
          IN  /\ call'.outcome = "ok"
              /\ FromHead' = <<k>> \o Without(FromHead, k)
              /\ FromTail' = Without(FromTail, k) \o <<k>>
              /\ (tail # k => tail' = tail)
              /\ Resident' = Resident
              /\ active_items' = active_items]_vars


\* C16: after adding n <= max_active_items distinct keys to an empty cache
\* head is the last key added, tail the first, and each entry's prev is the
\* key added after it and its next the key added before it (none at the
\* ends).
C16_AddsBuildList ==
    (Alive /\ adds # Mixed /\ Len(adds) >= 1 /\ Len(adds) <= max_active_items)
    => (/\ head = adds[Len(adds)]
        /\ tail = adds[1]
        /\ \A i \in 1 .. Len(adds) :
              /\ data[adds[i]].prev = IF i < Len(adds) THEN adds[i + 1] ELSE None
              /\ data[adds[i]].next = IF i > 1 THEN adds[i - 1] ELSE None)

C16_Witness ==
    /\ call.op = "add" /\ call.outcome = "ok"
    /\ adds = <<2, 0, 1>>
    /\ max_active_items = 3


(* ---------------------- observations of a changes map ------------------ *)
IncomeOf(ch, account) == IF account \in DOMAIN ch THEN ch[account].income ELSE 0
ExpenditureOf(ch, account) == IF account \in DOMAIN ch THEN ch[account].expenditure ELSE 0
StartBalanceOf(ch, account) == IF account \in DOMAIN ch THEN ch[account].start_balance ELSE 0

\* the operation applied by the step
LastOp == ops[Len(ops)]
CodeOf(op) ==
    IF op.subcategory \in DOMAIN Subcategories
    THEN Subcategories[op.subcategory].code ELSE "unknown"
\* the SECA parameters of an operation
SecaOf(op) == SelectSeq(op.parameters, LAMBDA p : p.code = "Seca")

\* C20: applying a TRFR operation adds op.summa to the expenditure of
\* op.account and, when the parameters hold exactly one SECA(dst), whatever
\* else they hold, adds op.summa to the income of dst; with no SECA only the
\* expenditure is applied.
C20_Trfr ==
    [][(call'.op = "apply" /\ CodeOf(LastOp') = "Trfr")
       => LET op == LastOp'
              seca == SecaOf(op)
          IN  /\ call'.outcome = "ok"
              /\ \A a \in AccountIds :
                    /\ ExpenditureOf(changes', a)
                         = ExpenditureOf(changes, a) + IF a = op.account THEN op.summa ELSE 0
                    /\ Len(seca) <= 1
                       => IncomeOf(changes', a)
                            = IncomeOf(changes, a)
                              + IF Len(seca) = 1 /\ a = seca[1].value THEN op.summa ELSE 0
                    /\ StartBalanceOf(changes', a) = StartBalanceOf(changes, a)]_vars


(* ------------------------- totals after loading ------------------------ *)
BalanceOf(totals, account) == IF account \in DOMAIN totals THEN totals[account] ELSE 0

\* the totals the bucket of key k opens with when every known bucket opens
\* with the closing balances of the known bucket before it
RECURSIVE OpeningTotals(_)
OpeningTotals(k) ==
    LET p == GreatestKnown(k - 1)
    IN  IF p = None THEN <<>>
        ELSE FinanceChanges_build_totals(
                 build_changes([operations |-> operations[p],
                                totals |-> OpeningTotals(p)]).changes)

\* C17: after build_totals(0) returned Ok, with max_active_items >= 1 and any
\* number of known buckets, the bucket the cache gives for every key has
\* the closing balances of the known bucket before it as totals, and the
\* first bucket has empty totals.
C17_TotalsChain ==
    (call.op = "build_totals" /\ call.outcome = "ok" /\ max_active_items >= 1)
    => \A k \in Known :
          /\ \A a \in AccountIds :
                BalanceOf(Totals(BucketAt(k)), a) = BalanceOf(OpeningTotals(k), a)
          /\ GreatestKnown(k - 1) = None => DOMAIN Totals(BucketAt(k)) = {}


(* --------------------------- ops_and_changes --------------------------- *)
\* the key of the bucket the last call was handed by the cache, None when it
\* was handed none
Located == IF call.ret = <<>> THEN None ELSE call.ret[1].key

\* C18: ops_and_changes(date) works on the bucket of the greatest known key
\* k <= index(date), the index function applied once to the date, and
\* returns no operation and empty changes when there is no such key.
C18_BucketOfDate ==
    [][(call'.op = "ops_and_changes" /\ call'.outcome = "ok")
       => LET k == GreatestKnown(index_calculator(call'.a))
          IN  /\ Located' = k
              /\ k = None => (ops' = <<>> /\ DOMAIN changes' = {})]_vars


\* the operations of a list dated within from .. to, in the order of the list
DatedWithin(list, from, to) == SelectSeq(list, LAMBDA op : op.date >= from /\ op.date <= to)

\* the bucket the last call was handed by the cache
LocatedBucket == Bucket(call.ret[1].key, call.ret[1].val)

\* C19: for every date >= 0, date 0 included, ops_and_changes(date) returns
\* the operations of the bucket dated exactly date, in insertion order, and
\* changes where the start_balance of every account is the opening total of
\* the bucket plus the net effect of the operations dated before the date,
\* and income and expenditure are those of the operations dated on the date.
C19_OpsAndChangesOfDate ==
    [][(call'.op = "ops_and_changes" /\ call'.ret # <<>>)
       => LET date == call'.a
              r == LocatedBucket'
              before == apply_all(DatedWithin(r.operations, 0, date - 1),
                                  Applied("ok", FinanceChanges_new(r.totals)))
              on == apply_all(DatedWithin(r.operations, date, date),
                              Applied("ok", FinanceChanges_empty))
          IN  /\ call'.outcome = "ok"
              /\ ops' = DatedWithin(r.operations, date, date)
              /\ \A a \in AccountIds :
                    /\ StartBalanceOf(changes', a)
                         = BalanceOf(FinanceChanges_build_totals(before.changes), a)
                    /\ IncomeOf(changes', a) = IncomeOf(on.changes, a)
                    /\ ExpenditureOf(changes', a) = ExpenditureOf(on.changes, a)]_vars


\* C21: applying an EXCH operation with an amount adds amount / 10 (integer
\* division) to the expenditure of op.account and, with exactly one
\* SECA(dst) parameter, op.summa to the income of dst; applying one without
\* amount changes nothing and creates no entry.
C21_Exch ==
    [][(call'.op = "apply" /\ CodeOf(LastOp') = "Exch")
       => LET op == LastOp'
              seca == SecaOf(op)
          IN  /\ call'.outcome = "ok"
              /\ op.amount = None => changes' = changes
              /\ op.amount # None =>
                   \A a \in AccountIds :
                      /\ ExpenditureOf(changes', a)
                           = ExpenditureOf(changes, a)
                             + IF a = op.account THEN op.amount \div 10 ELSE 0
                      /\ Len(seca) <= 1
                         => IncomeOf(changes', a)
                              = IncomeOf(changes, a)
                                + IF Len(seca) = 1 /\ a = seca[1].value THEN op.summa ELSE 0
                      /\ StartBalanceOf(changes', a) = StartBalanceOf(changes, a)]_vars


\* the cash account of a known account, None for a cash account
CashOf(account) == Accounts[account]

\* C22: applying an INCC operation adds op.summa to the income of op.account
\* and to the expenditure of its cash account; applying an EXPC operation
\* adds op.summa to the expenditure of op.account and to the income of that
\* cash account; when op.account is itself a cash account only op.account
\* changes.
C22_InccExpc ==
    [][(/\ call'.op = "apply"
        /\ CodeOf(LastOp') \in {"Incc", "Expc"}
        /\ LastOp'.account \in DOMAIN Accounts)
       => LET op == LastOp'
              incc == CodeOf(op) = "Incc"
              own(a) == IF a = op.account THEN op.summa ELSE 0
              cash(a) == IF CashOf(op.account) # None /\ a = CashOf(op.account)
                         THEN op.summa ELSE 0
          IN  /\ call'.outcome = "ok"
              /\ \A a \in AccountIds :
                    /\ IncomeOf(changes', a)
                         = IncomeOf(changes, a) + IF incc THEN own(a) ELSE cash(a)
                    /\ ExpenditureOf(changes', a)
                         = ExpenditureOf(changes, a) + IF incc THEN cash(a) ELSE own(a)
                    /\ StartBalanceOf(changes', a) = StartBalanceOf(changes, a)]_vars

\* an INCC on account 2, whose cash account is 1, then an EXPC on the cash
\* account 1 itself
C22_Witness ==
    /\ call.op = "apply" /\ call.outcome = "ok" /\ Len(ops) = 2
    /\ CodeOf(ops[1]) = "Incc" /\ ops[1].account = 2 /\ CashOf(2) = 1
    /\ CodeOf(ops[2]) = "Expc" /\ ops[2].account = 1 /\ CashOf(1) = None
    /\ ExpenditureOf(changes, 1) >= ops[1].summa + ops[2].summa
    /\ IncomeOf(changes, 2) = ops[1].summa


\* the entry of an account, zeroed when the map has none
EntryOf(ch, account) == IF account \in DOMAIN ch THEN ch[account] ELSE FinanceChange_new(0)

\* C23: applying an INCM operation adds op.summa to the income of op.account
\* only, applying an EXPN operation adds it to the expenditure of op.account
\* only; an account without entry gets a zeroed entry first and the entry
\* of every other account is left as it was.
C23_IncmExpn ==
    [][(call'.op = "apply"
        /\ LastOp'.subcategory \in DOMAIN Subcategories
        /\ Subcategories[LastOp'.subcategory].operation_code \in {"Incm", "Expn"})
       => LET op == LastOp'
              incm == Subcategories[op.subcategory].operation_code = "Incm"
              was == EntryOf(changes, op.account)
          IN  /\ call'.outcome = "ok"
              /\ DOMAIN changes' = DOMAIN changes \cup {op.account}
              /\ changes'[op.account] =
                   IF incm THEN [was EXCEPT !.income = @ + op.summa]
                   ELSE [was EXCEPT !.expenditure = @ + op.summa]
              /\ \A a \in DOMAIN changes \ {op.account} : changes'[a] = changes[a]]_vars

\* an INCM on an account that had an entry with a start balance, then an
\* EXPN on an account that had none
C23_Witness ==
    /\ call.op = "apply" /\ call.outcome = "ok" /\ Len(ops) = 2
    /\ Subcategories[ops[1].subcategory].operation_code = "Incm" /\ ops[1].account = 1
    /\ Subcategories[ops[2].subcategory].operation_code = "Expn" /\ ops[2].account = 2
    /\ DOMAIN changes = {1, 2}
    /\ changes[1].start_balance = 5 /\ changes[1].income = ops[1].summa
    /\ changes[2] = [start_balance |-> 0, income |-> 0, expenditure |-> ops[2].summa]


\* C24: applying an operation whose subcategory is SPCL with a code outside
\* INCC, EXPC, EXCH, TRFR, or whose subcategory id is unknown, fails with an
\* InvalidData error and leaves the FinanceChanges as it was.
C24_InvalidSubcategory ==
    [][(/\ call'.op = "apply"
        /\ \/ LastOp'.subcategory \notin DOMAIN Subcategories
           \/ /\ Subcategories[LastOp'.subcategory].operation_code = "Spcl"
              /\ CodeOf(LastOp') \notin {"Incc", "Expc", "Exch", "Trfr"})
       => (call'.outcome = "err" /\ changes' = changes)]_vars

\* a special code without handler was applied to a map with entries, after
\* an operation that went through
C24_Witness ==
    /\ call.op = "apply" /\ call.outcome = "err" /\ Len(ops) = 2
    /\ CodeOf(ops[2]) = "Fuel"
    /\ Subcategories[ops[1].subcategory].operation_code = "Incm"
    /\ IncomeOf(changes, ops[1].account) > 0

\* an unknown subcategory id was applied


(* --------------------------- life of a key ----------------------------- *)
\* the keys of the events ev of the last call
KeysOf(ev) == {trace[i].key : i \in {j \in DOMAIN trace : trace[j].ev = ev}}

\* the key of event i of the last call is not attached again later in the
\* call
NotAttachedAfter(i) ==
    \A j \in (i + 1) .. Len(trace) :
        ~(trace[j].ev = "attach" /\ trace[j].key = trace[i].key)

\* C26: a key known to the cache stays known after any add, get, range and
\* eviction: eviction only turns the resident entry into a placeholder, and
\* a later get or range that hands back that key reloads it through the
\* source.
C26_KnownStaysKnown ==
    [][/\ Known \subseteq Known'
       /\ \A i \in DOMAIN trace' :
             (trace'[i].ev = "evict" /\ NotAttachedAfter(i)')
             => trace'[i].key \in Placeholders'
       /\ (call'.op \in {"get", "get_range"} /\ call'.outcome = "ok")
          => \A i \in DOMAIN call'.ret :
                call'.ret[i].key \in Placeholders
                => /\ call'.ret[i].key \in KeysOf("load")'
                   /\ call'.ret[i].val = disk[call'.ret[i].key]
                   /\ call'.ret[i].key \in Known']_vars

\* a get handed back a key that had been added, evicted with a save and is
\* now loaded again, while the call evicted another key
C26_Witness ==
    /\ call.op = "get" /\ call.outcome = "ok" /\ call.ret # <<>>
    /\ call.ret[1].key \in KeysOf("load")
    /\ call.ret[1].val \in Values
    /\ call.ret[1].key \in Resident
    /\ KeysOf("evict") \cap Placeholders # {}


(* ------------------------ order within a call -------------------------- *)
\* the events of making room
Eviction == {"save", "save_failed", "evict"}

\* C27: during add and during a lazy load in get or range, every eviction
\* the call triggers, the save of a dirty tail included, is over before the
\* source loads the requested key and before the new entry is attached at
\* the head, so that the counter never exceeds max_active_items, not even
\* between the steps of the call.
C27_EvictBeforeLoad ==
    [][(call'.op \in {"add", "get", "get_range"})
       => /\ \A i \in DOMAIN trace' : trace'[i].active <= max_active_items
          /\ \A i \in DOMAIN trace' :
                trace'[i].ev = "load"
                => \/ i = Len(trace')
                   \/ trace'[i + 1].ev = "attach" /\ trace'[i + 1].key = trace'[i].key
          /\ \A i \in DOMAIN trace' :
                (trace'[i].ev = "attach" /\ call'.op # "add")
                => i > 1 /\ trace'[i - 1].ev = "load" /\ trace'[i - 1].key = trace'[i].key
          /\ call'.op \in {"add", "get"}
             => \A i, j \in DOMAIN trace' :
                   (i < j /\ trace'[i].ev \in {"load", "attach"})
                   => trace'[j].ev \notin Eviction]_vars

\* a get saved and evicted a dirty tail, then loaded the key and attached
\* it, which filled the cache to its bound
C27_Witness ==
    /\ call.op = "get" /\ call.outcome = "ok" /\ Len(trace) = 4
    /\ trace[1].ev = "save" /\ trace[2].ev = "evict"
    /\ trace[3].ev = "load" /\ trace[4].ev = "attach"
    /\ trace[4].active = max_active_items


(* ---------------------------- build_totals ----------------------------- *)
\* the keys of a set in ascending order
RECURSIVE AscendingFrom(_)
AscendingFrom(S) ==
    IF S = {} THEN <<>>
    ELSE LET least == CHOOSE x \in S : \A y \in S : x <= y
         IN  <<least>> \o AscendingFrom(S \ {least})

\* the keys of the buckets the last call was handed, in the order it was
\* handed them
Visited == [i \in DOMAIN call.ret |-> call.ret[i].key]

\* C28: build_totals(from_date) visits exactly the known buckets whose key
\* k satisfies k >= index(from_date), the index function applied once to
\* from_date, in ascending key order, and modifies no bucket with a smaller
\* key.
C28_SweepFrom ==
    [][(call'.op \in {"build_totals", "build_totals_from"} /\ call'.outcome = "ok")
       => /\ Visited' = AscendingFrom({k \in Known : k >= index_calculator(call'.a)})
          /\ \A k \in Known : k < index_calculator(call'.a) => BucketAt(k)' = BucketAt(k)]_vars


\* C29: build_totals never adds a key to the dirty set: the dirty set after
\* it is a subset of the dirty set before it, although the sweep overwrites
\* the totals of the buckets it visits.
C29_SweepKeepsClean ==
    [][(call'.op \in {"build_totals", "build_totals_from"})
       => modified' \subseteq modified]_vars

\* a sweep gave new totals to a bucket that is resident and not dirty
C29_Witness ==
    /\ call.op = "build_totals" /\ call.outcome = "ok"
    /\ \E k \in Resident :
          /\ k \in Range(Visited)
          /\ DOMAIN Totals(data[k].data) # {}
          /\ Totals(data[k].data) # Totals(disk[k])
          /\ k \notin modified


\* C30: in every state the program goes on from, the active_items counter
\* equals the number of slots whose payload is present, and head and tail
\* are both empty exactly when that number is 0; otherwise both name
\* resident entries.
C30_CounterAndEnds ==
    Alive =>
       /\ active_items = Cardinality(Resident)
       /\ (Cardinality(Resident) = 0) <=> (head = None /\ tail = None)
       /\ Cardinality(Resident) > 0 => (head \in Resident /\ tail \in Resident)


\* the ways a call never returns: the eviction loop spins, or a lock the
\* thread already holds is taken again
NeverReturns == {"loop", "deadlock"}

\* C31: every call of add, get or range terminates: whenever the eviction
\* loop runs there is a tail and every turn decreases the counter, for
\* every max_active_items >= 0, 0 and 1 included, in every reachable state.
C31_CallsTerminate ==
    call.op \in {"add", "get", "get_range"} => call.outcome \notin NeverReturns


(* ----------------------------- end balances ---------------------------- *)
EndBalanceOf(ch, account) == IF account \in DOMAIN ch THEN get_end_balance(ch[account]) ELSE 0

\* C32: for any bucket and any date d, the end balance of every account
\* after the two passes of ops_and_changes equals the end balance after one
\* pass that applies every operation dated <= d to FinanceChanges(totals of
\* the bucket).
C32_TwoPassesAsOne ==
    [][(call'.op = "ops_and_changes" /\ call'.ret # <<>>)
       => LET r == LocatedBucket'
              one == apply_all(DatedWithin(r.operations, 0, call'.a),
                               Applied("ok", FinanceChanges_new(r.totals)))
          IN  /\ call'.outcome = "ok"
              /\ \A a \in AccountIds :
                    EndBalanceOf(changes', a) = EndBalanceOf(one.changes, a)]_vars


(* -------------------------- order of operations ------------------------ *)
\* the lists that hold the operations of list in another order
Reordered(list) ==
    {[i \in DOMAIN list |-> list[p[i]]] :
        p \in {q \in [DOMAIN list -> DOMAIN list] :
                  \A i, j \in DOMAIN list : q[i] = q[j] => i = j}}

\* the maps the operations applied so far can have started from
StartedFrom ==
    {c \in StartChanges :
        /\ apply_all(ops, Applied("ok", c)).st = "ok"
        /\ apply_all(ops, Applied("ok", c)).changes = changes}

\* C33: the FinanceChanges that applying all operations of a bucket gives
\* does not depend on their order: when every operation applies, any
\* permutation of them gives every account the same start_balance, income
\* and expenditure.
C33_OrderIndependent ==
    (call.op = "apply" /\ call.outcome = "ok")
    => \A c \in StartedFrom : \A list \in Reordered(ops) :
          LET other == apply_all(list, Applied("ok", c))
          IN  /\ other.st = "ok"
              /\ \A a \in AccountIds :
                    /\ StartBalanceOf(other.changes, a) = StartBalanceOf(changes, a)
                    /\ IncomeOf(other.changes, a) = IncomeOf(changes, a)
                    /\ ExpenditureOf(other.changes, a) = ExpenditureOf(changes, a)

\* two expenditures of different size on the same account were applied,
\* one through a transfer, to a map that had an entry for the account
C33_Witness ==
    /\ call.op = "apply" /\ call.outcome = "ok" /\ Len(ops) = 2
    /\ StartedFrom # {}
    /\ ops[1].account = ops[2].account /\ ops[1].summa # ops[2].summa
    /\ CodeOf(ops[1]) = "Trfr" /\ Len(SecaOf(ops[1])) = 1
    /\ Subcategories[ops[2].subcategory].operation_code = "Expn"
    /\ ExpenditureOf(changes, ops[1].account) >= ops[1].summa + ops[2].summa
    /\ StartBalanceOf(changes, ops[1].account) = 5


\* the sum of the end balances of the accounts of S
RECURSIVE SumOfEndBalances(_, _)
SumOfEndBalances(ch, S) ==
    IF S = {} THEN 0
    ELSE LET a == CHOOSE x \in S : TRUE
         IN  EndBalanceOf(ch, a) + SumOfEndBalances(ch, S \ {a})

\* C34: applying a TRFR operation with exactly one parameter SECA(dst), or
\* an INCC or EXPC operation on an account that is not a cash account,
\* leaves the sum of the end balances over all accounts unchanged.
C34_SumPreserved ==
    [][(/\ call'.op = "apply"
        /\ \/ /\ CodeOf(LastOp') = "Trfr"
              /\ Len(LastOp'.parameters) = 1 /\ Len(SecaOf(LastOp')) = 1
           \/ /\ CodeOf(LastOp') \in {"Incc", "Expc"}
              /\ LastOp'.account \in DOMAIN Accounts
              /\ CashOf(LastOp'.account) # None)
       => /\ call'.outcome = "ok"
          /\ changes' # changes
          /\ SumOfEndBalances(changes', AccountIds) = SumOfEndBalances(changes, AccountIds)]_vars

\* a transfer with its one SECA parameter, then an EXPC on account 2, which
\* is not a cash account, moved money without changing the sum
C34_Witness ==
    /\ call.op = "apply" /\ call.outcome = "ok" /\ Len(ops) = 2
    /\ CodeOf(ops[1]) = "Trfr" /\ Len(ops[1].parameters) = 1 /\ Len(SecaOf(ops[1])) = 1
    /\ CodeOf(ops[2]) = "Expc" /\ ops[2].account = 2 /\ CashOf(2) # None
    /\ IncomeOf(changes, SecaOf(ops[1])[1].value) >= ops[1].summa
    /\ IncomeOf(changes, CashOf(2)) >= ops[2].summa
    /\ SumOfEndBalances(changes, AccountIds) = 5

=============================================================================
